---- MODULE Spec2Model ----
(***************************************************************************)
(* Model of the two components of nested-folder-frontend/client:           *)
(*   FileNode.tsx   the recursive tree renderer with a per-instance        *)
(*                  `expanded` flag,                                       *)
(*   CsvViewer.tsx  the CSV table viewer: load effect, recompute effect,   *)
(*                  handleSort, search box, pagination, export.            *)
(* The two components share no state; each has its own specification.      *)
(***************************************************************************)
EXTENDS Integers, Sequences, FiniteSets, TLC

VARIABLES
    \* ---- FileNode.tsx
    tree,          \* the `node` prop of the root FileNode (immutable)
    expanded,      \* path of a mounted FileNode instance -> its `expanded` flag
    activated,     \* the arguments onFileClick was called with, in order
    \* ---- CsvViewer.tsx
    file,          \* the `file` prop
    pending,       \* FileReader reads started by the load effect, not yet finished
    data,          \* contents of the array held by the `data` state
    columns,
    filteredData,  \* contents of the array held by the `filteredData` state
    searchQuery,
    sortConfig,
    currentPage,
    loading,
    error,
    download       \* what exportData last offered for download (none: <<>>)

treeVars == <<tree, expanded, activated>>
viewerVars == <<file, pending, data, columns, filteredData, searchQuery,
                sortConfig, currentPage, loading, error, download>>
vars == <<tree, expanded, activated, file, pending, data, columns, filteredData,
          searchQuery, sortConfig, currentPage, loading, error, download>>

NULL == "null"

\* useState<{key, direction} | null>(null): the null sort configuration
NoSort == [key |-> NULL, direction |-> NULL]

(***************************************************************************)
(* Bounds                                                                  *)
(***************************************************************************)
MaxNodes == 5      \* nodes of the tree handed to the root FileNode
MaxCalls == 1      \* recorded onFileClick invocations
MaxRows == 3       \* rows of a parsed file (SpecView)
MaxInFlight == 2   \* file reads in flight at once (Spec)

(***************************************************************************)
(*                              FileNode.tsx                               *)
(***************************************************************************)

\* A TreeNode: type "folder" | "file"; children is the ordered child list
\* (a file node has none).
FileLeaf == [type |-> "file", children |-> <<>>]

FolderOf(kids) == [type |-> "folder", children |-> kids]

RECURSIVE Forests(_)
RECURSIVE TreesOfSize(_)
\* All child lists with n nodes in total.
Forests(n) ==
    IF n = 0 THEN {<<>>}
    ELSE UNION {{<<t>> \o f : t \in TreesOfSize(k), f \in Forests(n - k)} : k \in 1..n}

\* All TreeNodes with exactly n nodes.
TreesOfSize(n) ==
    (IF n = 1 THEN {FileLeaf} ELSE {}) \cup {FolderOf(f) : f \in Forests(n - 1)}

Trees == UNION {TreesOfSize(n) : n \in 1..MaxNodes}

\* A node instance is identified by its position: the child indices (the
\* React keys) from the root down.
RECURSIVE NodeAt(_, _)
NodeAt(t, p) == IF p = <<>> THEN t ELSE NodeAt(t.children[Head(p)], Tail(p))

RECURSIVE PathsOf(_)
PathsOf(t) ==
    {<<>>} \cup UNION {{<<i>> \o q : q \in PathsOf(t.children[i])} : i \in 1..Len(t.children)}

isFolder(p) == NodeAt(tree, p).type = "folder"

IsStrictPrefix(p, q) == Len(p) < Len(q) /\ SubSeq(q, 1, Len(p)) = p

ChildPaths(p) == {Append(p, i) : i \in 1..Len(NodeAt(tree, p).children)}

\* A render that keeps the instances below a collapsed folder (children
\* hidden rather than unmounted), so their flags outlive the collapse.
RenderKeepHidden(e) ==
    LET fresh == UNION {ChildPaths(q) : q \in {r \in DOMAIN e : isFolder(r) /\ e[r]}} \ DOMAIN e
    IN  [q \in DOMAIN e \cup fresh |-> IF q \in DOMAIN e THEN e[q] ELSE FALSE]

\* The instances that exist after a render with the flags e: an instance
\* stays mounted while every folder above it is expanded (line 74); the
\* children of an expanded folder that had no instance are mounted, and a
\* new instance starts with useState(false) (line 5).
Render(e) ==
    LET kept == {q \in DOMAIN e : \A a \in DOMAIN e : IsStrictPrefix(a, q) => e[a]}
        fresh == UNION {ChildPaths(q) : q \in {r \in kept : isFolder(r) /\ e[r]}} \ kept
    IN  [q \in kept \cup fresh |-> IF q \in kept THEN e[q] ELSE FALSE]

\* A toggle that also collapses the other children of the same parent, as a
\* flag lifted into a shared "open child" slot would.
toggleAccordion(p) ==
    expanded' = Render([q \in DOMAIN expanded |->
                          IF q = p THEN ~expanded[p]
                          ELSE IF Len(q) = Len(p) /\ Len(p) > 0
                                  /\ SubSeq(q, 1, Len(q) - 1) = SubSeq(p, 1, Len(p) - 1)
                               THEN FALSE
                               ELSE expanded[q]])

\* const toggle = () => setExpanded(!expanded), followed by the re-render.
toggle(p) == expanded' = Render([expanded EXCEPT ![p] = ~expanded[p]])

\* The child list is rendered (line 74).
ShowsChildren(p) ==
    p \in DOMAIN expanded /\ expanded[p] /\ isFolder(p)
        /\ Len(NodeAt(tree, p).children) > 0

\* An "Empty folder" line under every expanded folder.
ShowsEmptyFolderAnyCount(p) == p \in DOMAIN expanded /\ expanded[p] /\ isFolder(p)

\* The "Empty folder" line is rendered (line 83).
ShowsEmptyFolder(p) ==
    p \in DOMAIN expanded /\ expanded[p] /\ isFolder(p)
        /\ Len(NodeAt(tree, p).children) = 0

\* An onClick that toggles whatever the node is and then notifies for files.
ClickTogglesFile(p) ==
    /\ p \in DOMAIN expanded
    /\ toggle(p)
    /\ IF isFolder(p)
       THEN UNCHANGED activated
       ELSE Len(activated) < MaxCalls /\ activated' = Append(activated, p)
    /\ UNCHANGED tree
    /\ UNCHANGED viewerVars

\* onClick of a row: isFolder ? toggle() : onFileClick(node).  Only mounted
\* instances have a row to click.
Click(p) ==
    /\ p \in DOMAIN expanded
    /\ IF isFolder(p)
       THEN toggle(p) /\ UNCHANGED activated
       ELSE /\ Len(activated) < MaxCalls
            /\ activated' = Append(activated, p)
            /\ UNCHANGED expanded
    /\ UNCHANGED tree
    /\ UNCHANGED viewerVars

(***************************************************************************)
(*                              CsvViewer.tsx                              *)
(***************************************************************************)

\* ---- cell values.  With dynamicTyping a cell is a number or a string; a
\* string is the sequence of its characters.
Num(n) == [t |-> "number", v |-> n]

Str(s) == [t |-> "string", v |-> s]

\* UTF-16 code unit of a character (what < and > compare strings by).
CharCode(c) ==
    CASE c = "0" -> 48 [] c = "1" -> 49 [] c = "2" -> 50 [] c = "3" -> 51
      [] c = "4" -> 52 [] c = "5" -> 53 [] c = "6" -> 54 [] c = "7" -> 55
      [] c = "8" -> 56 [] c = "9" -> 57
      [] c = "A" -> 65 [] c = "B" -> 66
      [] c = "a" -> 97 [] c = "b" -> 98 [] c = "m" -> 109 [] c = "o" -> 111
      [] c = "y" -> 121

LowerChar(c) == CASE c = "A" -> "a" [] c = "B" -> "b" [] OTHER -> c

\* String.prototype.toLowerCase
toLowerCase(s) == [i \in 1..Len(s) |-> LowerChar(s[i])]

DigitChar(d) ==
    CASE d = 0 -> "0" [] d = 1 -> "1" [] d = 2 -> "2" [] d = 3 -> "3" [] d = 4 -> "4"
      [] d = 5 -> "5" [] d = 6 -> "6" [] d = 7 -> "7" [] d = 8 -> "8" [] d = 9 -> "9"

RECURSIVE Digits(_)
Digits(n) == IF n < 10 THEN <<DigitChar(n)>> ELSE Append(Digits(n \div 10), DigitChar(n % 10))

\* String(value)
String(val) == IF val.t = "number" THEN Digits(val.v) ELSE val.v

\* String.prototype.includes
includes(s, q) == \E i \in 0..(Len(s) - Len(q)) : SubSeq(s, i + 1, i + Len(q)) = q

RECURSIVE LexLess(_, _)
LexLess(s, u) ==
    IF u = <<>> THEN FALSE
    ELSE IF s = <<>> THEN TRUE
    ELSE IF CharCode(Head(s)) # CharCode(Head(u)) THEN CharCode(Head(s)) < CharCode(Head(u))
    ELSE LexLess(Tail(s), Tail(u))

\* a < b on two cell values: numbers numerically, strings by code units; a
\* number against a (non-numeric) string compares with NaN and is false.
Less(a, b) ==
    IF a.t = "number" /\ b.t = "number" THEN a.v < b.v
    ELSE IF a.t = "string" /\ b.t = "string" THEN LexLess(a.v, b.v)
    ELSE FALSE

\* ---- rows and files
Bob30 == [name |-> Str(<<"B", "o", "b">>), age |-> Num(30)]

Amy25 == [name |-> Str(<<"A", "m", "y">>), age |-> Num(25)]

Bob25 == [name |-> Str(<<"B", "o", "b">>), age |-> Num(25)]

RowUniverse == {Bob30, Amy25, Bob25}

Fields == <<"name", "age">>

\* Object.values(row), in key order
ObjectValues(row) == [i \in 1..Len(Fields) |-> row[Fields[i]]]

RECURSIVE SeqsUpTo(_, _)
SeqsUpTo(S, n) ==
    IF n = 0 THEN {<<>>}
    ELSE SeqsUpTo(S, n - 1) \cup {Append(s, x) : s \in {r \in SeqsUpTo(S, n - 1) : Len(r) = n - 1}, x \in S}

\* What reading and parsing a file gives (lines 22-46):
\*   "ok"          read, Papa.parse returns rows with no errors
\*   "parseErrors" read, parsed.errors is not empty
\*   "throws"      read, the try body throws
\*   "unreadable"  the read fails: FileReader fires error, onload never runs
OkFile(rows) == [result |-> "ok", data |-> rows, fields |-> Fields]

BadFile(kind) == [result |-> kind, data |-> <<>>, fields |-> <<>>]

\* Every file of at most MaxRows rows that parses.
OkFiles == {OkFile(rows) : rows \in SeqsUpTo(RowUniverse, MaxRows)}

\* The files a session of repeated loads draws from.  None of them takes
\* the catch branch: Papa.parse does not throw on the string readAsText
\* gives.
FileCatalogue ==
    {OkFile(<<Bob30, Amy25>>), OkFile(<<Bob25, Amy25, Bob30>>),
     BadFile("parseErrors"), BadFile("unreadable")}

\* The words typed into the search box.
Queries == {<<>>, <<"b">>, <<"B">>, <<"5">>, <<"a">>}

\* ---- the recompute effect (lines 49-75)

\* The search predicate that lower-cases the cell but not the query.
MatchesNoLowerQuery(row, q) ==
    \E i \in 1..Len(Fields) : includes(toLowerCase(String(ObjectValues(row)[i])), q)

\* Object.values(row).some(v => String(v).toLowerCase().includes(q.toLowerCase()))
Matches(row, q) ==
    \E i \in 1..Len(Fields) :
        includes(toLowerCase(String(ObjectValues(row)[i])), toLowerCase(q))

\* lines 50-59: `filtered`, a new array when a query is set, else `data` itself
FilterRows(d, q) == SelectSeq(d, LAMBDA row : Matches(row, q))

Filtered(d, q) == IF q # <<>> THEN FilterRows(d, q) ELSE d

\* the comparator of lines 63-70: negative, positive or 0
Comparator(a, b, cfg) ==
    LET aValue == a[cfg.key]
        bValue == b[cfg.key]
    IN  IF Less(aValue, bValue) THEN (IF cfg.direction = "asc" THEN -1 ELSE 1)
        ELSE IF Less(bValue, aValue) THEN (IF cfg.direction = "asc" THEN 1 ELSE -1)
        ELSE 0

\* Array.prototype.sort is stable (ES2019): the rows the comparator puts
\* first come first, in the order they have in the array, then the rest
\* sorted the same way.
RECURSIVE SortRows(_, _)
SortRows(rows, cfg) ==
    IF rows = <<>> THEN <<>>
    ELSE LET present == {rows[i] : i \in 1..Len(rows)}
             least == CHOOSE x \in present :
                          \A y \in present : Comparator(y, x, cfg) >= 0
         IN  SelectSeq(rows, LAMBDA r : Comparator(r, least, cfg) = 0)
             \o SortRows(SelectSeq(rows, LAMBDA r : Comparator(r, least, cfg) # 0), cfg)

\* The value handed to setFilteredData (line 73).
RecomputeFiltered(d, q, cfg) ==
    IF cfg # NoSort THEN SortRows(Filtered(d, q), cfg) ELSE Filtered(d, q)

\* The `data` array after the effect: with no query `filtered` is `data`
\* itself (line 50), so filtered.sort (line 63) sorts `data` in place.
RecomputeData(d, q, cfg) ==
    IF q = <<>> /\ cfg # NoSort THEN SortRows(d, cfg) ELSE d

\* The effect without its setCurrentPage(1).
RecomputeEffectKeepPage(d, q, cfg) ==
    /\ data' = RecomputeData(d, q, cfg)
    /\ filteredData' = RecomputeFiltered(d, q, cfg)
    /\ UNCHANGED currentPage

\* The effect of lines 49-75, run after a render in which data, searchQuery
\* or sortConfig changed.
RecomputeEffect(d, q, cfg) ==
    /\ data' = RecomputeData(d, q, cfg)
    /\ filteredData' = RecomputeFiltered(d, q, cfg)
    /\ currentPage' = 1

\* lines 104-120: what the component renders
View == IF loading THEN "Loading" ELSE IF error # NULL THEN "Failed" ELSE "Ready"

\* ---- state after mount

\* The useState initial values (lines 6-16) once both effects have run for
\* the first time: the load effect has started the read of f, the recompute
\* effect has found data empty.
ViewerMounted(f) ==
    /\ file = f
    /\ pending = {f}
    /\ data = <<>>
    /\ columns = <<>>
    /\ filteredData = <<>>
    /\ searchQuery = <<>>
    /\ sortConfig = NoSort
    /\ currentPage = 1
    /\ loading = TRUE
    /\ error = NULL
    /\ download = <<>>

\* The root FileNode after its first render: one instance, collapsed.
TreeMounted(t) ==
    /\ tree = t
    /\ expanded = [p \in {<<>>} |-> FALSE]
    /\ activated = <<>>

\* ---- the load effect (lines 20-47)

\* The `file` prop changes: the effect runs again and starts another read.
\* Nothing else is touched and the earlier reader is not aborted.
NewFile(f) ==
    /\ f # file
    /\ f \notin pending
    /\ Cardinality(pending) < MaxInFlight
    /\ file' = f
    /\ pending' = pending \cup {f}
    /\ UNCHANGED <<data, columns, filteredData, searchQuery, sortConfig,
                   currentPage, loading, error, download>>
    /\ UNCHANGED treeVars

\* reader.onload (lines 22-45) of the read of f, and the recompute effect
\* that the render after setData runs.
ReadComplete(f) ==
    /\ f \in pending
    /\ f.result # "unreadable"
    /\ pending' = pending \ {f}
    /\ CASE f.result = "parseErrors" ->
              /\ error' = "Error parsing CSV file"
              /\ UNCHANGED <<data, columns, filteredData, currentPage, loading>>
         [] f.result = "throws" ->
              /\ error' = "Failed to load CSV file"
              /\ loading' = FALSE
              /\ UNCHANGED <<data, columns, filteredData, currentPage>>
         [] f.result = "ok" ->
              /\ columns' = f.fields
              /\ loading' = FALSE
              /\ RecomputeEffect(f.data, searchQuery, sortConfig)
              /\ UNCHANGED error
    /\ UNCHANGED <<file, searchQuery, sortConfig, download>>
    /\ UNCHANGED treeVars

\* The read of f fails.  The reader has no onerror handler: nothing runs.
ReadFail(f) ==
    /\ f \in pending
    /\ f.result = "unreadable"
    /\ pending' = pending \ {f}
    /\ UNCHANGED <<file, data, columns, filteredData, searchQuery, sortConfig,
                   currentPage, loading, error, download>>
    /\ UNCHANGED treeVars

\* ---- the handlers of the Ready view

\* onChange of the search box (line 138), then the recompute effect.
SetSearchQuery(q) ==
    /\ View = "Ready"
    /\ q # searchQuery
    /\ searchQuery' = q
    /\ RecomputeEffect(data, q, sortConfig)
    /\ UNCHANGED <<file, pending, columns, sortConfig, loading, error, download>>
    /\ UNCHANGED treeVars

\* An updater that flips the direction without looking at the column.
NextSortConfigAnyColumn(current, column) ==
    [key |-> column,
     direction |-> IF current.direction = "asc" THEN "desc" ELSE "asc"]

\* A three-state updater: ascending, descending, then no sort.
NextSortConfigThreeState(current, column) ==
    IF current.key = column /\ current.direction = "asc"
    THEN [key |-> column, direction |-> "desc"]
    ELSE IF current.key = column /\ current.direction = "desc"
    THEN NoSort
    ELSE [key |-> column, direction |-> "asc"]

\* The updater passed to setSortConfig (lines 78-81).
NextSortConfig(current, column) ==
    [key |-> column,
     direction |-> IF current.key = column /\ current.direction = "asc"
                   THEN "desc" ELSE "asc"]

\* onClick of a column header (line 167): handleSort, then the recompute
\* effect.
handleSort(column) ==
    /\ View = "Ready"
    /\ \E i \in 1..Len(columns) : columns[i] = column
    /\ sortConfig' = NextSortConfig(sortConfig, column)
    /\ RecomputeEffect(data, searchQuery, sortConfig')
    /\ UNCHANGED <<file, pending, columns, searchQuery, loading, error, download>>
    /\ UNCHANGED treeVars

\* ---- pagination (lines 18, 122-125, 194-240)

itemsPerPage == 50

MathMax(a, b) == IF a >= b THEN a ELSE b

MathMin(a, b) == IF a <= b THEN a ELSE b

\* Math.ceil(filteredData.length / itemsPerPage)
totalPages == (Len(filteredData) + itemsPerPage - 1) \div itemsPerPage

startIndex == (currentPage - 1) * itemsPerPage

endIndex == startIndex + itemsPerPage

\* filteredData.slice(startIndex, endIndex): the rows of the visible page
currentData == SubSeq(filteredData, startIndex + 1, MathMin(endIndex, Len(filteredData)))

\* Five page buttons whatever the number of pages.
PageButtonsFive == 1..5

\* Array.from({ length: Math.min(5, totalPages) }, (_, i) => i + 1)
PageButtons == 1..MathMin(5, totalPages)

\* A page change that stores the page's slice as the filtered rows, as
\* paginating inside the recompute effect would.
setCurrentPageSlicing(n) ==
    /\ currentPage' = n
    /\ filteredData' = SubSeq(filteredData, (n - 1) * itemsPerPage + 1,
                              MathMin(n * itemsPerPage, Len(filteredData)))
    /\ UNCHANGED <<file, pending, data, columns, searchQuery, sortConfig,
                   loading, error, download>>
    /\ UNCHANGED treeVars

\* setCurrentPage(n) from a pagination button.  currentPage is not a
\* dependency of the recompute effect (line 75): nothing else runs.
setCurrentPage(n) ==
    /\ currentPage' = n
    /\ UNCHANGED <<file, pending, data, columns, filteredData, searchQuery,
                   sortConfig, loading, error, download>>
    /\ UNCHANGED treeVars

\* The pagination bar is rendered in the Ready view when totalPages > 1.
PaginationShown == View = "Ready" /\ totalPages > 1

\* Previous (lines 202-208), disabled on page 1
PreviousPage ==
    /\ PaginationShown
    /\ currentPage # 1
    /\ setCurrentPage(MathMax(1, currentPage - 1))

\* Next (lines 231-237), disabled on the last page
NextPage ==
    /\ PaginationShown
    /\ currentPage # totalPages
    /\ setCurrentPage(MathMin(totalPages, currentPage + 1))

\* A page number button (lines 216-226)
PageButton(pageNum) ==
    /\ PaginationShown
    /\ pageNum \in PageButtons
    /\ setCurrentPage(pageNum)

\* ---- export (lines 95-102)

RECURSIVE JoinCells(_)
JoinCells(cells) ==
    IF cells = <<>> THEN <<>>
    ELSE IF Len(cells) = 1 THEN cells[1]
    ELSE cells[1] \o <<",">> \o JoinCells(Tail(cells))

\* Papa.unparse of an array of objects: a header line of the keys of the
\* first object, then a line per object; the text is the sequence of its
\* lines, a line the sequence of its characters (a key stands as one token).
\* An empty array gives the empty text.
unparse(rows) ==
    IF rows = <<>> THEN <<>>
    ELSE <<JoinCells([j \in 1..Len(Fields) |-> <<Fields[j]>>])>>
         \o [i \in 1..Len(rows) |->
               JoinCells([j \in 1..Len(Fields) |-> String(rows[i][Fields[j]])])]

\* exportData: the download named filtered_<name of the file prop> holding
\* Papa.unparse(filteredData).
exportData ==
    /\ View = "Ready"
    /\ download' = <<[of |-> file, csv |-> unparse(filteredData)]>>
    /\ UNCHANGED <<file, pending, data, columns, filteredData, searchQuery,
                   sortConfig, currentPage, loading, error>>
    /\ UNCHANGED treeVars

(***************************************************************************)
(*                             Specifications                              *)
(***************************************************************************)

\* The viewer fed files from the catalogue, any number of times.
Init == (\E f \in FileCatalogue : ViewerMounted(f)) /\ TreeMounted(FileLeaf)

Load == \E f \in FileCatalogue : NewFile(f)

Complete == \E f \in FileCatalogue : ReadComplete(f)

Fail == \E f \in FileCatalogue : ReadFail(f)

Search == \E q \in Queries : SetSearchQuery(q)

Sort == \E c \in {"name", "age"} : handleSort(c)

Next == Load \/ Complete \/ Fail \/ Search \/ Sort

Spec == Init /\ [][Next]_vars

\* The same viewer when a new file is supplied only once no read is in
\* flight, so that load attempts never overlap.
LoadIdle == pending = {} /\ Load

NextSeq == LoadIdle \/ Complete \/ Fail \/ Search \/ Sort

SpecSeq == Init /\ [][NextSeq]_vars

\* The viewer given one file that parses, of any content up to MaxRows rows.
InitView == (\E f \in OkFiles : ViewerMounted(f)) /\ TreeMounted(FileLeaf)

CompleteView == \E f \in OkFiles : ReadComplete(f)

NextView == CompleteView \/ Search \/ Sort

SpecView == InitView /\ [][NextView]_vars

\* The same, with the export button.
NextExport == NextView \/ exportData

SpecExport == InitView /\ [][NextExport]_vars

\* The viewer given files of more than one page: 120 rows (3 pages), 60 rows
\* (2 pages) and 2 rows, one load after the other.
Repeat(row, n) == [i \in 1..n |-> row]

PageCatalogue ==
    {OkFile(Repeat(Bob30, 50) \o Repeat(Amy25, 40) \o Repeat(Bob25, 30)),
     OkFile(Repeat(Amy25, 30) \o Repeat(Bob30, 30)),
     OkFile(<<Bob30, Amy25>>),
     BadFile("parseErrors")}

InitPage == (\E f \in PageCatalogue : ViewerMounted(f)) /\ TreeMounted(FileLeaf)

LoadPage == pending = {} /\ \E f \in PageCatalogue : NewFile(f)

CompletePage == \E f \in PageCatalogue : ReadComplete(f)

GoToPage == \E n \in 1..5 : PageButton(n)

NextOfPage ==
    LoadPage \/ CompletePage \/ Search \/ Sort \/ PreviousPage \/ NextPage \/ GoToPage

SpecPage == InitPage /\ [][NextOfPage]_vars

\* The tree renderer over every tree of at most MaxNodes nodes.
InitTree == (\E t \in Trees : TreeMounted(t)) /\ ViewerMounted(OkFile(<<>>))

ClickNode == \E p \in PathsOf(tree) : Click(p)

NextTree == ClickNode

SpecTree == InitTree /\ [][NextTree]_vars

(***************************************************************************)
(*                                 Claims                                  *)
(***************************************************************************)

\* Number of times row r occurs in rows.
Count(rows, r) == Cardinality({i \in 1..Len(rows) : rows[i] = r})

\* rows and other hold the same rows the same number of times.
SameRows(rows, other) == \A r \in RowUniverse : Count(rows, r) = Count(other, r)

IsExpanded(e, q) == q \in DOMAIN e /\ e[q]

\* C1: when the read of a file succeeds and the parser reports errors, the
\* viewer shows the parse-error message (it is Failed, not Loading) and
\* data, columns and filteredData are not populated from that file.
C1_ParseErrorEndsFailed ==
    [][\A f \in FileCatalogue :
          (ReadComplete(f) /\ f.result = "parseErrors")
          => /\ View' = "Failed"
             /\ error' = "Error parsing CSV file"
             /\ UNCHANGED <<data, columns, filteredData>>]_vars

\* C2: when the read of the current file fails and no other read is in
\* flight, the viewer has left Loading and shows the "failed to load" error.
C2_ReadFailureEndsFailed ==
    [][\A f \in FileCatalogue :
          (ReadFail(f) /\ f = file /\ pending' = {})
          => /\ View' = "Failed"
             /\ error' = "Failed to load CSV file"]_vars

\* C3 (load attempts one after the other, SpecSeq): when an earlier load
\* attempt has left an error message and the read of the file supplied after
\* it succeeds and parses, the viewer is Ready with the new file's rows and
\* the earlier error message is gone.
C3_NewFileAfterFailureIsReady ==
    [][\A f \in FileCatalogue :
          (ReadComplete(f) /\ f = file /\ f.result = "ok" /\ pending = {f}
              /\ error # NULL)
          => /\ View' = "Ready"
             /\ error' = NULL
             /\ SameRows(data', f.data)]_vars

\* C4: supplying a new file to a viewer that is Ready or Failed puts the
\* viewer in Loading.
C4_NewFileRestartsLoading ==
    [][(Load /\ View \in {"Ready", "Failed"}) => View' = "Loading"]_vars

\* C5: when the read of an earlier file completes after the read of the
\* current file (issued while the earlier one was in flight) has completed,
\* the dataset, columns, filteredData and error status stay those of the
\* current file.
C5_LatestLoadWins ==
    [][\A f \in FileCatalogue :
          (ReadComplete(f) /\ f # file /\ pending = {f} /\ file.result = "ok")
          => /\ SameRows(data', file.data)
             /\ columns' = file.fields
             /\ filteredData' = RecomputeFiltered(file.data, searchQuery, sortConfig)
             /\ error' = error]_vars

\* C6: in every Ready state filteredData is the function of the dataset as
\* loaded, searchQuery and sortConfig, whatever sorts and searches came
\* before.
C6_FilteredIsFunctionOfLoaded ==
    View = "Ready" => filteredData = RecomputeFiltered(file.data, searchQuery, sortConfig)

\* C7 as stated: a click on a folder n leaves the expanded state of every
\* other node, the descendants of n included, as it was.
C7_ToggleLeavesAllOthers ==
    [][\A p \in PathsOf(tree) :
          (Click(p) /\ isFolder(p))
          => \A q \in PathsOf(tree) \ {p} :
                 IsExpanded(expanded', q) = IsExpanded(expanded, q)]_vars

\* C7 amended: a click on a folder n flips n's flag; every node that is not
\* a descendant of n keeps its instance and its flag; every descendant of n
\* is collapsed afterwards (unmounted when n collapses, mounted collapsed
\* when n expands).
C7_ToggleFrame ==
    [][\A p \in PathsOf(tree) :
          (Click(p) /\ isFolder(p))
          => /\ p \in DOMAIN expanded'
             /\ expanded'[p] = ~expanded[p]
             /\ \A q \in PathsOf(tree) \ {p} :
                    IF IsStrictPrefix(p, q)
                    THEN ~IsExpanded(expanded', q)
                    ELSE /\ (q \in DOMAIN expanded') = (q \in DOMAIN expanded)
                         /\ q \in DOMAIN expanded => expanded'[q] = expanded[q]]_vars

\* A folder below the root is expanded together with a folder inside it and
\* with a sibling folder: the state a collapsing click on it starts from.
C7_Witness ==
    \E p \in DOMAIN expanded :
        /\ Len(p) = 1
        /\ expanded[p]
        /\ \E q \in DOMAIN expanded : IsStrictPrefix(p, q) /\ expanded[q]
        /\ \E r \in DOMAIN expanded : Len(r) = 1 /\ r # p /\ expanded[r]

\* C8: in every Ready state with a sort active, two different rows of
\* filteredData that compare equal in the sort column stand in the order
\* they have in the dataset as loaded.
C8_StableAgainstLoadedOrder ==
    (View = "Ready" /\ sortConfig # NoSort)
    => \A i, j \in 1..Len(filteredData) :
           (i < j /\ filteredData[i] # filteredData[j]
               /\ Comparator(filteredData[i], filteredData[j], sortConfig) = 0)
           => \E k, l \in 1..Len(file.data) :
                  k < l /\ file.data[k] = filteredData[i] /\ file.data[l] = filteredData[j]

\* C9: in every Ready state filteredData holds exactly the rows of the
\* loaded dataset with a field whose string form contains searchQuery
\* ignoring case, each as often as the dataset holds it; with the empty
\* query that is every row.
C9_FilterExact ==
    View = "Ready"
    => \A r \in RowUniverse :
           Count(filteredData, r) =
               IF \E k \in {"name", "age"} :
                      includes(toLowerCase(String(r[k])), toLowerCase(searchQuery))
               THEN Count(file.data, r)
               ELSE 0

\* An upper-case query has kept some rows of the dataset and dropped others.
C9_Witness ==
    /\ View = "Ready"
    /\ searchQuery = <<"B">>
    /\ filteredData # <<>>
    /\ Len(filteredData) < Len(file.data)

\* C10: a click on column c flips the direction when c is the active sort
\* column and otherwise makes the sort (c, ascending); on the rows
\* [Bob/30, Amy/25] with no query, sorting by age ascending gives
\* [Amy/25, Bob/30] and descending gives [Bob/30, Amy/25].
C10_SortToggle ==
    [][\A c \in {"name", "age"} :
          handleSort(c)
          => /\ sortConfig' =
                    IF sortConfig # NoSort /\ sortConfig.key = c
                    THEN [key |-> c,
                          direction |-> IF sortConfig.direction = "asc" THEN "desc" ELSE "asc"]
                    ELSE [key |-> c, direction |-> "asc"]
             /\ (file.data = <<Bob30, Amy25>> /\ searchQuery = <<>> /\ c = "age")
                => filteredData' = IF sortConfig'.direction = "asc"
                                   THEN <<Amy25, Bob30>>
                                   ELSE <<Bob30, Amy25>>]_vars

\* [Bob/30, Amy/25] after the second click on age: descending.
C10_Witness ==
    /\ View = "Ready"
    /\ file.data = <<Bob30, Amy25>>
    /\ searchQuery = <<>>
    /\ sortConfig = [key |-> "age", direction |-> "desc"]
    /\ filteredData = <<Bob30, Amy25>>

\* The page operations of the pagination bar.
PageChange == PreviousPage \/ NextPage \/ GoToPage

\* C11: every change of searchQuery and every click on a column header
\* leaves currentPage at 1, whatever page was shown before.
C11_SearchAndSortResetPage ==
    [][((\E q \in Queries : SetSearchQuery(q))
          \/ (\E c \in DOMAIN Bob30 : handleSort(c)))
       => currentPage' = 1]_vars

\* A list of more than one page, searched and sorted, back on page 1.
C11_Witness ==
    /\ View = "Ready"
    /\ searchQuery = <<"b">>
    /\ sortConfig # NoSort
    /\ totalPages = 2
    /\ currentPage = 1

\* ceil(n / 50) written as the least count of 50-row pages that holds n rows.
CeilPages(n) == CHOOSE k \in 0..n : k * 50 >= n /\ \A j \in 0..n : j * 50 >= n => k <= j

\* C12: a page operation always lands in 1..totalPages, totalPages being
\* ceil(Len(filteredData) / 50); 120 rows make 3 pages, Next on page 3 and
\* Previous on page 1 are refused.
C12_PageChangeClamped ==
    [][PageChange
       => /\ totalPages = CeilPages(Len(filteredData))
          /\ totalPages' = totalPages
          /\ 1 <= currentPage' /\ currentPage' <= totalPages
          /\ Len(filteredData) = 120 => totalPages = 3
          /\ currentPage = totalPages
                => ~ ENABLED NextPage /\ MathMin(totalPages, currentPage + 1) = totalPages
          /\ currentPage = 1
                => ~ ENABLED PreviousPage /\ MathMax(1, currentPage - 1) = 1]_vars

\* The last of the three pages of 120 rows.
C12_Witness ==
    /\ View = "Ready"
    /\ Len(filteredData) = 120
    /\ totalPages = 3
    /\ currentPage = 3

\* The text the export of the rows must be: the header, then a line per row
\* in order, written out from the claim rather than through unparse.
ExpectedCsv(rows) ==
    IF rows = <<>> THEN <<>>
    ELSE <<<<"name", ",", "age">>>>
         \o [i \in 1..Len(rows) |->
                String(rows[i].name) \o <<",">> \o String(rows[i].age)]

\* C13: an export writes exactly the rows got by applying the current
\* searchQuery and sortConfig to the dataset as it was loaded; no earlier
\* search or sort shows in the exported text.
C13_ExportIsLatestOverLoaded ==
    [][exportData
       => /\ Len(download') = 1
          /\ download'[1].of = file
          /\ download'[1].csv
                = ExpectedCsv(RecomputeFiltered(file.data, searchQuery, sortConfig))]_vars

\* C14: from an ascending sort on a column, two more clicks on that column
\* (descending, then ascending) give the same filteredData row for row.
C14_DoubleToggleRestores ==
    (View = "Ready" /\ sortConfig # NoSort /\ sortConfig.direction = "asc")
    => LET c == sortConfig.key
           cfgDesc == NextSortConfig(sortConfig, c)
           dataDesc == RecomputeData(data, searchQuery, cfgDesc)
           filteredDesc == RecomputeFiltered(data, searchQuery, cfgDesc)
           cfgAsc == NextSortConfig(cfgDesc, c)
       IN  /\ cfgDesc = [key |-> c, direction |-> "desc"]
           /\ cfgAsc = sortConfig
           /\ SameRows(filteredDesc, filteredData)
           /\ RecomputeFiltered(dataDesc, searchQuery, cfgAsc) = filteredData

\* An ascending sort by age of rows with a tie and two distinct ages.
C14_Witness ==
    /\ View = "Ready"
    /\ sortConfig = [key |-> "age", direction |-> "asc"]
    /\ filteredData = <<Bob25, Amy25, Bob30>>

\* C15: a page operation changes currentPage only; filteredData, the
\* dataset, searchQuery and sortConfig stay as they were.
C15_PageChangeOnlyMovesPage ==
    [][PageChange
       => /\ UNCHANGED <<filteredData, data, searchQuery, sortConfig>>
          /\ UNCHANGED <<file, columns, loading, error, pending>>]_vars

\* Page 2 of a searched and sorted list.
C15_Witness ==
    /\ View = "Ready"
    /\ currentPage = 2
    /\ searchQuery # <<>>
    /\ sortConfig # NoSort

\* C16: a click on a file row calls onFileClick once with that node and
\* changes no expanded flag; a click on a folder row calls nothing.
C16_ClickRoutes ==
    [][\A p \in PathsOf(tree) :
          Click(p)
          => IF isFolder(p)
             THEN activated' = activated
             ELSE activated' = Append(activated, p) /\ expanded' = expanded]_vars

\* A file below an expanded folder has been clicked.
C16_Witness ==
    /\ Len(activated) = 1
    /\ ~ isFolder(activated[1])
    /\ activated[1] # <<>>
    /\ \A a \in DOMAIN expanded : IsStrictPrefix(a, activated[1]) => expanded[a]

\* C17: the "Empty folder" line is shown for a node exactly when it is an
\* expanded folder without children; never for a file, a collapsed folder
\* or a folder with children, and never together with a child list.
C17_EmptyFolderPlaceholder ==
    \A p \in DOMAIN expanded :
        /\ ShowsEmptyFolder(p)
               <=> (NodeAt(tree, p).type = "folder" /\ expanded[p]
                      /\ NodeAt(tree, p).children = <<>>)
        /\ ~ (ShowsEmptyFolder(p) /\ ShowsChildren(p))
        /\ ~ expanded[p] => ~ ShowsEmptyFolder(p) /\ ~ ShowsChildren(p)

\* An expanded folder without children next to an expanded one with some.
C17_Witness ==
    /\ \E p \in DOMAIN expanded : ShowsEmptyFolder(p)
    /\ \E p \in DOMAIN expanded : ShowsChildren(p)

\* C18: every instance is mounted collapsed; collapsing a folder unmounts
\* everything below it, and expanding it mounts its children only, each of
\* them collapsed, whatever their flags were before the collapse.
C18_RemountStartsCollapsed ==
    /\ DOMAIN expanded = {<<>>} /\ ~ expanded[<<>>]
    /\ [][\A p \in PathsOf(tree) :
             (Click(p) /\ isFolder(p))
             => /\ \A q \in DOMAIN expanded' \ DOMAIN expanded : ~ expanded'[q]
                /\ expanded[p]
                     => \A q \in PathsOf(tree) :
                            IsStrictPrefix(p, q) => q \notin DOMAIN expanded'
                /\ ~ expanded[p]
                     => /\ \A q \in ChildPaths(p) : q \in DOMAIN expanded' /\ ~ expanded'[q]
                        /\ \A q \in PathsOf(tree) :
                               (IsStrictPrefix(p, q) /\ q \notin ChildPaths(p))
                                   => q \notin DOMAIN expanded']_vars

\* An expanded folder whose folder child, with children of its own, is collapsed.
C18_Witness ==
    \E p \in DOMAIN expanded :
        /\ expanded[p]
        /\ \E q \in ChildPaths(p) :
               /\ isFolder(q)
               /\ ~ expanded[q]
               /\ NodeAt(tree, q).children # <<>>

\* C19: in every Ready state currentPage is between 1 and max(1, totalPages)
\* and the visible page holds rows whenever filteredData does.
C19_PageInRange ==
    View = "Ready"
    => /\ 1 <= currentPage
       /\ currentPage <= MathMax(1, totalPages)
       /\ filteredData # <<>> => currentData # <<>>

\* A search has cut the 120 rows of three pages down to one page.
C19_Witness ==
    /\ View = "Ready"
    /\ Len(data) = 120
    /\ searchQuery = <<"a">>
    /\ Len(filteredData) = 40
    /\ currentPage = 1
    /\ Len(currentData) = 40

====
